---------------------------- MODULE Spec2Model ----------------------------
(***************************************************************************)
(* netpulse (src/main.go): N per-target scheduler loops                    *)
(* (startIndividualProber), a shared slot pool (globalSem), the probe      *)
(* executor (probe) with its four metrics, and the failure classifier      *)
(* (classifyTransportError, classifyHTTPStatus).                           *)
(*                                                                         *)
(* Every atomic operation on shared state (the CompareAndSwap, the         *)
(* non-blocking channel send, each metric update, the channel receive, the *)
(* Store) is one step, so that all interleavings of the goroutines are     *)
(* explored.                                                               *)
(***************************************************************************)
EXTENDS Integers, Sequences, FiniteSets, TLC

\* ------------------------------------------------------------------ bounds

\* Number of targets handed to startIndividualProber by main.  main.go lists
\* 8; the model takes more targets than slots so that the pool can run dry.
NumTargets == 2

\* Capacity of globalSem.  main.go sets 10; the model scales it below
\* NumTargets (the scheduler's code depends on the capacity only through
\* "is the channel full").
GlobalSlotSize == 1

\* Total number of probes the tickers may start (caps the counters).
MaxProbes == 2

\* Longest wrap chain of a transport error handed to the classifier.
MaxChain == 3

\* Largest HTTP status code handed to classifyHTTPStatus.
MaxStatusCode == 700

Targets == 1..NumTargets

\* ---------------------------------------------------------------- taxonomy

FailureNone == "none"
FailureContextCanceled == "context_canceled"
FailureContextDeadline == "context_deadline"
FailureDNSNotFound == "dns_not_found"
FailureDNSTimeout == "dns_timeout"
FailureDNSError == "dns_error"
FailureTLSHostnameMismatch == "tls_hostname_mismatch"
FailureTLSUntrustedCA == "tls_untrusted_ca"
FailureTLSCertInvalid == "tls_cert_invalid"
FailureTimeout == "timeout"
FailureConnectionRefused == "connection_refused"
FailureNetworkError == "network_error"
FailureHTTP4xx == "http_4xx"
FailureHTTP5xx == "http_5xx"
FailureUnknown == "unknown"

\* ------------------------------------------------------------ error values

(***************************************************************************)
(* A Go error is its Unwrap chain, outermost first.  A node is a record    *)
(* [type, IsNotFound, IsTimeout]; the two flags are the fields of          *)
(* *net.DNSError and are FALSE on every other type.                        *)
(***************************************************************************)
Node(ty, nf, to) == [type |-> ty, IsNotFound |-> nf, IsTimeout |-> to]

\* Types whose Unwrap returns the next node of the chain.
WrapperTypes == {"UrlError", "OpError", "wrapError"}

\* Types without an inner error.
LeafTypes ==
    {"Canceled", "DeadlineExceeded", "HostnameError", "UnknownAuthorityError",
     "CertificateInvalidError", "httpTimeoutError", "ECONNREFUSED",
     "ETIMEDOUT", "ECONNRESET", "EOF"}

Nodes ==
    {Node(ty, FALSE, FALSE) : ty \in WrapperTypes \cup LeafTypes}
        \cup {Node("DNSError", nf, to) : nf \in BOOLEAN, to \in BOOLEAN}

WrapperNodes == {n \in Nodes : n.type \in WrapperTypes}

RECURSIVE ChainsOfLen(_)
ChainsOfLen(n) ==
    IF n = 1 THEN {<<x>> : x \in Nodes}
    ELSE {<<w>> \o c : w \in WrapperNodes, c \in ChainsOfLen(n - 1)}

\* Every non-nil error value of at most MaxChain nodes.
Errors == UNION {ChainsOfLen(n) : n \in 1..MaxChain}

\* Types with Timeout() and Temporary(), that is implementing net.Error.
NetErrorTypes ==
    {"DeadlineExceeded", "DNSError", "OpError", "UrlError", "httpTimeoutError",
     "ECONNREFUSED", "ETIMEDOUT", "ECONNRESET"}

\* errors.Is(err, target) for a sentinel: some node of the chain is the
\* sentinel, or has an Is method accepting it (net/http's timeout error
\* accepts context.DeadlineExceeded).
errorsIs(err, sentinel) ==
    \E i \in 1..Len(err) :
        \/ err[i].type = sentinel
        \/ err[i].type = "httpTimeoutError" /\ sentinel = "DeadlineExceeded"

\* errors.As(err, &v): the index of the first node of the chain assignable
\* to v's type, 0 when there is none.
errorsAs(err, types) ==
    IF \E i \in 1..Len(err) : err[i].type \in types
    THEN CHOOSE i \in 1..Len(err) :
            /\ err[i].type \in types
            /\ \A j \in 1..(i - 1) : err[j].type \notin types
    ELSE 0

\* The Timeout() method of node i: url.Error and net.OpError ask their inner
\* error, a DNSError answers IsTimeout.
RECURSIVE Timeout(_, _)
Timeout(err, i) ==
    CASE err[i].type \in {"DeadlineExceeded", "httpTimeoutError", "ETIMEDOUT"} -> TRUE
      [] err[i].type = "DNSError" -> err[i].IsTimeout
      [] err[i].type \in {"UrlError", "OpError"} ->
            /\ i < Len(err)
            /\ err[i + 1].type \in NetErrorTypes
            /\ Timeout(err, i + 1)
      [] OTHER -> FALSE

\* opErr.Err != nil && strings.Contains(opErr.Err.Error(), "connection
\* refused"), for the OpError at index i: a wrapper's text holds its inner
\* error's text, and only ECONNREFUSED's own text holds these words.
ConnRefusedText(err, i) ==
    /\ i < Len(err)
    /\ \E k \in (i + 1)..Len(err) : err[k].type = "ECONNREFUSED"

\* -------------------------------------------------------------- classifier

\* classifyTransportError with the generic timeout case moved ahead of the
\* DNS case (a plausible reordering of the switch).
classifyTransportErrorTimeoutFirst(err) ==
    LET dnsErr == errorsAs(err, {"DNSError"})
        netErr == errorsAs(err, NetErrorTypes)
        opErr == errorsAs(err, {"OpError"})
    IN  IF errorsIs(err, "Canceled") THEN FailureContextCanceled
        ELSE IF errorsIs(err, "DeadlineExceeded") THEN FailureContextDeadline
        ELSE IF netErr # 0 /\ Timeout(err, netErr) THEN FailureTimeout
        ELSE IF dnsErr # 0 THEN
            IF err[dnsErr].IsNotFound THEN FailureDNSNotFound
            ELSE IF err[dnsErr].IsTimeout THEN FailureDNSTimeout
            ELSE FailureDNSError
        ELSE IF errorsAs(err, {"HostnameError"}) # 0 THEN FailureTLSHostnameMismatch
        ELSE IF errorsAs(err, {"UnknownAuthorityError"}) # 0 THEN FailureTLSUntrustedCA
        ELSE IF errorsAs(err, {"CertificateInvalidError"}) # 0 THEN FailureTLSCertInvalid
        ELSE IF opErr # 0 THEN
            IF ConnRefusedText(err, opErr) THEN FailureConnectionRefused
            ELSE FailureNetworkError
        ELSE FailureUnknown

\* classifyTransportError without its default case: an error no case matches
\* leaves the reason at the caller's initial value.
classifyTransportErrorNoDefault(err) ==
    LET dnsErr == errorsAs(err, {"DNSError"})
        netErr == errorsAs(err, NetErrorTypes)
        opErr == errorsAs(err, {"OpError"})
    IN  IF errorsIs(err, "Canceled") THEN FailureContextCanceled
        ELSE IF errorsIs(err, "DeadlineExceeded") THEN FailureContextDeadline
        ELSE IF dnsErr # 0 THEN
            IF err[dnsErr].IsNotFound THEN FailureDNSNotFound
            ELSE IF err[dnsErr].IsTimeout THEN FailureDNSTimeout
            ELSE FailureDNSError
        ELSE IF errorsAs(err, {"HostnameError"}) # 0 THEN FailureTLSHostnameMismatch
        ELSE IF errorsAs(err, {"UnknownAuthorityError"}) # 0 THEN FailureTLSUntrustedCA
        ELSE IF errorsAs(err, {"CertificateInvalidError"}) # 0 THEN FailureTLSCertInvalid
        ELSE IF netErr # 0 /\ Timeout(err, netErr) THEN FailureTimeout
        ELSE IF opErr # 0 THEN
            IF ConnRefusedText(err, opErr) THEN FailureConnectionRefused
            ELSE FailureNetworkError
        ELSE FailureNone

\* The switch of classifyTransportError: the cases are tried in order and the
\* first whose condition holds decides.
classifyTransportError(err) ==
    LET dnsErr == errorsAs(err, {"DNSError"})
        netErr == errorsAs(err, NetErrorTypes)
        opErr == errorsAs(err, {"OpError"})
    IN  IF errorsIs(err, "Canceled") THEN FailureContextCanceled
        ELSE IF errorsIs(err, "DeadlineExceeded") THEN FailureContextDeadline
        ELSE IF dnsErr # 0 THEN
            IF err[dnsErr].IsNotFound THEN FailureDNSNotFound
            ELSE IF err[dnsErr].IsTimeout THEN FailureDNSTimeout
            ELSE FailureDNSError
        ELSE IF errorsAs(err, {"HostnameError"}) # 0 THEN FailureTLSHostnameMismatch
        ELSE IF errorsAs(err, {"UnknownAuthorityError"}) # 0 THEN FailureTLSUntrustedCA
        ELSE IF errorsAs(err, {"CertificateInvalidError"}) # 0 THEN FailureTLSCertInvalid
        ELSE IF netErr # 0 /\ Timeout(err, netErr) THEN FailureTimeout
        ELSE IF opErr # 0 THEN
            IF ConnRefusedText(err, opErr) THEN FailureConnectionRefused
            ELSE FailureNetworkError
        ELSE FailureUnknown

\* classifyHTTPStatus with the 4xx range closed one code early.
classifyHTTPStatusOffByOne(code) ==
    IF code >= 400 /\ code < 499 THEN FailureHTTP4xx
    ELSE IF code >= 500 THEN FailureHTTP5xx
    ELSE FailureNone

classifyHTTPStatus(code) ==
    IF code >= 400 /\ code < 500 THEN FailureHTTP4xx
    ELSE IF code >= 500 THEN FailureHTTP5xx
    ELSE FailureNone

\* ------------------------------------------------------------------- state

VARIABLES
    running,            \* running[t]: the atomic.Bool of target t's loop
    pc,                 \* pc[t]: where target t's loop stands
    gor,                \* gor[t]: the probe goroutines launched for t, unfinished
    globalSem,          \* number of tokens in the buffered channel globalSem
    semCap,             \* cap(globalSem), fixed when the channel is made
    inFlightGauge,      \* the gauge's value
    pingCount,          \* CounterVec: target -> count
    probeErrorsTotal,   \* CounterVec: error_reason -> count
    pingLatency,        \* HistogramVec: <<target, status, error_reason>> -> observations
    lastRelease,        \* history: what last reset running[t], "default" or "goroutine"
    clsInput,           \* the classifier's argument, when it is called on its own
    clsReason           \* the classifier's result, "" before the call

vars ==
    <<running, pc, gor, globalSem, semCap, inFlightGauge, pingCount,
      probeErrorsTotal, pingLatency, lastRelease, clsInput, clsReason>>

metrics == <<inFlightGauge, pingCount, probeErrorsTotal, pingLatency>>

schedVars ==
    <<running, pc, gor, globalSem, semCap, inFlightGauge, pingCount,
      probeErrorsTotal, pingLatency, lastRelease>>

\* A metric vector: WithLabelValues creates the child at 0 on its first use.
EmptyVec == [k \in {} |-> 0]

Val(vec, key) == IF key \in DOMAIN vec THEN vec[key] ELSE 0

VecInc(vec, key) ==
    IF key \in DOMAIN vec THEN [vec EXCEPT ![key] = @ + 1] ELSE vec @@ (key :> 1)

RECURSIVE SumOver(_, _)
SumOver(vec, keys) ==
    IF keys = {} THEN 0
    ELSE LET k == CHOOSE x \in keys : TRUE
         IN  vec[k] + SumOver(vec, keys \ {k})

Total(vec) == SumOver(vec, DOMAIN vec)

\* What httpClient.Get returns: (resp, nil) with a status code, or (nil, err).
\* A nil error is the empty chain.
Response(err, code) == [err |-> err, code |-> code]

UrlErr(inner) == <<Node("UrlError", FALSE, FALSE)>> \o inner
OpErr(inner) == <<Node("OpError", FALSE, FALSE)>> \o inner

\* The answers the targets of main give: 200, 404 and 503 pages, a host that
\* does not resolve, a closed local port, a page slower than the client's
\* timeout.
ProbeResponses ==
    {Response(<<>>, c) : c \in {200, 404, 503}}
        \cup {Response(UrlErr(OpErr(<<Node("DNSError", TRUE, FALSE)>>)), 0),
              Response(UrlErr(OpErr(<<Node("ECONNREFUSED", FALSE, FALSE)>>)), 0),
              Response(UrlErr(<<Node("httpTimeoutError", FALSE, FALSE)>>), 0)}

\* The goroutine started by "go func()": its position, probe's locals, and
\* (history) how many times it has updated the request counter, an error
\* counter and the histogram.
NewGoroutine ==
    [pc |-> "gaugeInc", err |-> <<>>, code |-> 0,
     status |-> "", errorReason |-> "",
     ncount |-> 0, nerr |-> 0, nobs |-> 0]

ClassifierInputs ==
    {[kind |-> "transport", err |-> e, code |-> 0] : e \in Errors}
        \cup {[kind |-> "http", err |-> <<>>, code |-> c] : c \in 0..MaxStatusCode}

NoInput == [kind |-> "idle", err |-> <<>>, code |-> 0]

\* Nothing started yet: every loop waits for its first tick.
SchedStart ==
    /\ running = [t \in Targets |-> FALSE]
    /\ pc = [t \in Targets |-> "tick"]
    /\ gor = [t \in Targets |-> <<>>]
    /\ globalSem = 0
    /\ inFlightGauge = 0
    /\ pingCount = EmptyVec
    /\ probeErrorsTotal = EmptyVec
    /\ pingLatency = EmptyVec
    /\ lastRelease = [t \in Targets |-> "none"]

SchedInit ==
    /\ semCap = GlobalSlotSize
    /\ SchedStart

Init ==
    /\ SchedInit
    /\ clsInput = NoInput
    /\ clsReason = ""

\* --------------------------------------------------- startIndividualProber

\* Probes started or about to be: the tickers deliver ticks until MaxProbes
\* probes have been started.
Started ==
    Total(pingCount)
        + Cardinality({t \in Targets : pc[t] \in {"select", "go"}})
        + SumOver([t \in Targets |->
                    Cardinality({i \in 1..Len(gor[t]) :
                                    gor[t][i].pc \in {"gaugeInc", "count"}})],
                  Targets)

TickerFires == Started < MaxProbes

\* The guard set by a plain Store(true): the old value is not looked at.
CompareAndSwapBlind(t) == TRUE

\* running.CompareAndSwap(false, true) succeeds.
CompareAndSwapWins(t) == running[t] = FALSE

\* A send that never finds the buffer full (an unbounded pool).
SendUnbounded == TRUE

\* A channel made one element short: make(chan struct{}, GlobalSlotSize-1).
SendReadyOneShort == globalSem < semCap - 1

\* The send "globalSem <- struct{}{}" can proceed: the buffer is not full.
SendReady == globalSem < semCap

\* A skipped tick counted as a request: pingCount incremented before continue.
TickBusyCounts(t) ==
    /\ pc[t] = "tick"
    /\ TickerFires
    /\ ~CompareAndSwapWins(t)
    /\ pingCount' = VecInc(pingCount, t)
    /\ UNCHANGED <<running, pc, gor, globalSem, inFlightGauge, probeErrorsTotal,
                   pingLatency, lastRelease, semCap, clsInput, clsReason>>

\* A tick finds the guard set: continue.
TickBusy(t) ==
    /\ pc[t] = "tick"
    /\ TickerFires
    /\ ~CompareAndSwapWins(t)
    /\ UNCHANGED vars

\* A tick wins the guard.
TickWin(t) ==
    /\ pc[t] = "tick"
    /\ TickerFires
    /\ CompareAndSwapWins(t)
    /\ running' = [running EXCEPT ![t] = TRUE]
    /\ pc' = [pc EXCEPT ![t] = "select"]
    /\ UNCHANGED <<gor, globalSem, metrics, lastRelease, semCap, clsInput, clsReason>>

\* select: the send case.
SelectSend(t) ==
    /\ pc[t] = "select"
    /\ SendReady
    /\ globalSem' = globalSem + 1
    /\ pc' = [pc EXCEPT ![t] = "go"]
    /\ UNCHANGED <<running, gor, metrics, lastRelease, semCap, clsInput, clsReason>>

\* select: the default case is taken.
SelectDefault(t) ==
    /\ pc[t] = "select"
    /\ ~SendReady
    /\ pc' = [pc EXCEPT ![t] = "release"]
    /\ UNCHANGED <<running, gor, globalSem, metrics, lastRelease, semCap, clsInput, clsReason>>

\* The default case without its running.Store(false).
DefaultKeepsGuard(t) ==
    /\ pc[t] = "release"
    /\ pc' = [pc EXCEPT ![t] = "tick"]
    /\ lastRelease' = [lastRelease EXCEPT ![t] = "default"]
    /\ UNCHANGED <<running, gor, globalSem, metrics, semCap, clsInput, clsReason>>

\* default: running.Store(false); continue.
DefaultStore(t) ==
    /\ pc[t] = "release"
    /\ running' = [running EXCEPT ![t] = FALSE]
    /\ pc' = [pc EXCEPT ![t] = "tick"]
    /\ lastRelease' = [lastRelease EXCEPT ![t] = "default"]
    /\ UNCHANGED <<gor, globalSem, metrics, semCap, clsInput, clsReason>>

\* go func() { ... }().
Go(t) ==
    /\ pc[t] = "go"
    /\ gor' = [gor EXCEPT ![t] = Append(@, NewGoroutine)]
    /\ pc' = [pc EXCEPT ![t] = "tick"]
    /\ UNCHANGED <<running, globalSem, metrics, lastRelease, semCap, clsInput, clsReason>>

\* ------------------------------------------------------------------- probe

At(t, i, where) == i \in 1..Len(gor[t]) /\ gor[t][i].pc = where

Move(t, i, where) == gor' = [gor EXCEPT ![t][i].pc = where]

\* inFlightGauge.Inc()
ProbeGaugeInc(t, i) ==
    /\ At(t, i, "gaugeInc")
    /\ inFlightGauge' = inFlightGauge + 1
    /\ Move(t, i, "count")
    /\ UNCHANGED <<running, pc, globalSem, pingCount, probeErrorsTotal,
                   pingLatency, lastRelease, semCap, clsInput, clsReason>>

\* probe without its pingCount increment.
ProbeCountForgotten(t, i) ==
    /\ At(t, i, "count")
    /\ Move(t, i, "get")
    /\ UNCHANGED <<running, pc, globalSem, metrics, lastRelease, semCap, clsInput, clsReason>>

\* pingCount.WithLabelValues(target).Inc()
ProbeCount(t, i) ==
    /\ At(t, i, "count")
    /\ pingCount' = VecInc(pingCount, t)
    /\ gor' = [gor EXCEPT ![t][i].pc = "get", ![t][i].ncount = @ + 1]
    /\ UNCHANGED <<running, pc, globalSem, inFlightGauge, probeErrorsTotal,
                   pingLatency, lastRelease, semCap, clsInput, clsReason>>

\* probe with its test of the status code written "> 400".
OutcomeAbove400(r) ==
    IF r.err # <<>>
    THEN [status |-> "transport_error",
          errorReason |-> classifyTransportError(r.err)]
    ELSE IF r.code > 400
    THEN [status |-> "http_error", errorReason |-> classifyHTTPStatus(r.code)]
    ELSE [status |-> "success", errorReason |-> FailureNone]

\* status and errorReason as probe sets them from Get's result: the defaults
\* "success" and FailureNone, overwritten when err != nil, or else when
\* resp.StatusCode >= 400.
Outcome(r) ==
    IF r.err # <<>>
    THEN [status |-> "transport_error",
          errorReason |-> classifyTransportError(r.err)]
    ELSE IF r.code >= 400
    THEN [status |-> "http_error", errorReason |-> classifyHTTPStatus(r.code)]
    ELSE [status |-> "success", errorReason |-> FailureNone]

\* probe with the error counter's increment outside the two if blocks: every
\* answer goes through it.
GetReturnsCountsAll(t, i, r) ==
    /\ At(t, i, "get")
    /\ gor' = [gor EXCEPT
                ![t][i].pc = "errInc",
                ![t][i].err = r.err,
                ![t][i].code = r.code,
                ![t][i].status = Outcome(r).status,
                ![t][i].errorReason = Outcome(r).errorReason]
    /\ UNCHANGED <<running, pc, globalSem, metrics, lastRelease, semCap, clsInput, clsReason>>

\* resp, err := httpClient.Get(target) answering r, and the locals computed
\* from it up to the next metric update.
GetReturns(t, i, r) ==
    /\ At(t, i, "get")
    /\ gor' = [gor EXCEPT
                ![t][i].pc = IF Outcome(r).status = "success"
                             THEN "observe" ELSE "errInc",
                ![t][i].err = r.err,
                ![t][i].code = r.code,
                ![t][i].status = Outcome(r).status,
                ![t][i].errorReason = Outcome(r).errorReason]
    /\ UNCHANGED <<running, pc, globalSem, metrics, lastRelease, semCap, clsInput, clsReason>>

\* An http.Client without Timeout: the last target accepts the connection
\* and never answers, so Get does not return.
ProbeGetNoTimeout(t, i) ==
    /\ t # NumTargets
    /\ \E r \in ProbeResponses : GetReturns(t, i, r)

ProbeGet(t, i) == \E r \in ProbeResponses : GetReturns(t, i, r)

\* probe making its latency observation twice on the error path: once in the
\* error branch and once more before returning.
ProbeErrIncObserves(t, i) ==
    /\ At(t, i, "errInc")
    /\ probeErrorsTotal' = VecInc(probeErrorsTotal, gor[t][i].errorReason)
    /\ pingLatency' =
          VecInc(pingLatency, <<t, gor[t][i].status, gor[t][i].errorReason>>)
    /\ gor' = [gor EXCEPT ![t][i].pc = "observe", ![t][i].nerr = @ + 1]
    /\ UNCHANGED <<running, pc, globalSem, inFlightGauge, pingCount,
                   lastRelease, semCap, clsInput, clsReason>>

\* The error path returning right after the error counter, with no latency
\* observation.
ProbeErrIncReturns(t, i) ==
    /\ At(t, i, "errInc")
    /\ probeErrorsTotal' = VecInc(probeErrorsTotal, gor[t][i].errorReason)
    /\ gor' = [gor EXCEPT ![t][i] =
                    [NewGoroutine EXCEPT !.pc = "gaugeDec",
                                         !.ncount = gor[t][i].ncount,
                                         !.nerr = gor[t][i].nerr + 1]]
    /\ UNCHANGED <<running, pc, globalSem, inFlightGauge, pingCount,
                   pingLatency, lastRelease, semCap, clsInput, clsReason>>

\* probeErrorsTotal.WithLabelValues(errorReason).Inc()
ProbeErrInc(t, i) ==
    /\ At(t, i, "errInc")
    /\ probeErrorsTotal' = VecInc(probeErrorsTotal, gor[t][i].errorReason)
    /\ gor' = [gor EXCEPT ![t][i].pc = "observe", ![t][i].nerr = @ + 1]
    /\ UNCHANGED <<running, pc, globalSem, inFlightGauge, pingCount,
                   pingLatency, lastRelease, semCap, clsInput, clsReason>>

\* probe clearing the error counters after its observation
\* (probeErrorsTotal.Reset()).
ProbeObserveResets(t, i) ==
    /\ At(t, i, "observe")
    /\ pingLatency' =
          VecInc(pingLatency, <<t, gor[t][i].status, gor[t][i].errorReason>>)
    /\ probeErrorsTotal' = EmptyVec
    /\ gor' = [gor EXCEPT ![t][i] =
                    [NewGoroutine EXCEPT !.pc = "gaugeDec",
                                         !.ncount = gor[t][i].ncount,
                                         !.nerr = gor[t][i].nerr,
                                         !.nobs = gor[t][i].nobs + 1]]
    /\ UNCHANGED <<running, pc, globalSem, inFlightGauge, pingCount,
                   lastRelease, semCap, clsInput, clsReason>>

\* probe with inFlightGauge.Dec() as its last statement instead of deferred:
\* the early return of the transport-error path skips it.
ProbeObserveErrSkipsDec(t, i) ==
    /\ At(t, i, "observe")
    /\ pingLatency' =
          VecInc(pingLatency, <<t, gor[t][i].status, gor[t][i].errorReason>>)
    /\ gor' = [gor EXCEPT ![t][i] =
                    [NewGoroutine EXCEPT
                        !.pc = IF gor[t][i].status = "transport_error"
                               THEN "slot" ELSE "gaugeDec",
                        !.ncount = gor[t][i].ncount,
                        !.nerr = gor[t][i].nerr,
                        !.nobs = gor[t][i].nobs + 1]]
    /\ UNCHANGED <<running, pc, globalSem, inFlightGauge, pingCount,
                   probeErrorsTotal, lastRelease, semCap, clsInput, clsReason>>

\* pingLatency.WithLabelValues(target, status, errorReason).Observe(duration);
\* probe returns after it, and its locals are gone.
ProbeObserve(t, i) ==
    /\ At(t, i, "observe")
    /\ pingLatency' =
          VecInc(pingLatency, <<t, gor[t][i].status, gor[t][i].errorReason>>)
    /\ gor' = [gor EXCEPT ![t][i] =
                    [NewGoroutine EXCEPT !.pc = "gaugeDec",
                                         !.ncount = gor[t][i].ncount,
                                         !.nerr = gor[t][i].nerr,
                                         !.nobs = gor[t][i].nobs + 1]]
    /\ UNCHANGED <<running, pc, globalSem, inFlightGauge, pingCount,
                   probeErrorsTotal, lastRelease, semCap, clsInput, clsReason>>

\* return: the deferred inFlightGauge.Dec()
ProbeGaugeDec(t, i) ==
    /\ At(t, i, "gaugeDec")
    /\ inFlightGauge' = inFlightGauge - 1
    /\ Move(t, i, "slot")
    /\ UNCHANGED <<running, pc, globalSem, pingCount, probeErrorsTotal,
                   pingLatency, lastRelease, semCap, clsInput, clsReason>>

\* The goroutine without its deferred receive from globalSem: the slot is
\* never given back.
ReleaseSlotForgotten(t, i) ==
    /\ At(t, i, "slot")
    /\ Move(t, i, "store")
    /\ UNCHANGED <<running, pc, globalSem, metrics, lastRelease, semCap, clsInput, clsReason>>

\* The two deferred calls registered in the other order: running.Store(false)
\* runs at this point, while the slot is still held.
ReleaseSlotAfterStore(t, i) ==
    /\ At(t, i, "slot")
    /\ running' = [running EXCEPT ![t] = FALSE]
    /\ Move(t, i, "store")
    /\ UNCHANGED <<pc, globalSem, metrics, lastRelease, semCap, clsInput, clsReason>>

\* The goroutine's deferred func() { <-globalSem }(), run first.
ReleaseSlot(t, i) ==
    /\ At(t, i, "slot")
    /\ globalSem > 0
    /\ globalSem' = globalSem - 1
    /\ Move(t, i, "store")
    /\ UNCHANGED <<running, pc, metrics, lastRelease, semCap, clsInput, clsReason>>

Remove(s, i) == SubSeq(s, 1, i - 1) \o SubSeq(s, i + 1, Len(s))

\* A goroutine that resets the guard only after a probe without error, as if
\* the Store followed probe's success path instead of being deferred.
StoreFalseUnlessFailed(t, i) ==
    /\ At(t, i, "store")
    /\ running' = [running EXCEPT ![t] = (gor[t][i].nerr > 0)]
    /\ gor' = [gor EXCEPT ![t] = Remove(@, i)]
    /\ lastRelease' = [lastRelease EXCEPT ![t] = "goroutine"]
    /\ UNCHANGED <<pc, globalSem, metrics, semCap, clsInput, clsReason>>

\* running declared at package level and shared by the loops: the deferred
\* Store resets the guard every target sees.
StoreFalseShared(t, i) ==
    /\ At(t, i, "store")
    /\ running' = [u \in Targets |-> FALSE]
    /\ gor' = [gor EXCEPT ![t] = Remove(@, i)]
    /\ lastRelease' = [lastRelease EXCEPT ![t] = "goroutine"]
    /\ UNCHANGED <<pc, globalSem, metrics, semCap, clsInput, clsReason>>

\* The goroutine's deferred running.Store(false), run last; the goroutine ends.
StoreFalse(t, i) ==
    /\ At(t, i, "store")
    /\ running' = [running EXCEPT ![t] = FALSE]
    /\ gor' = [gor EXCEPT ![t] = Remove(@, i)]
    /\ lastRelease' = [lastRelease EXCEPT ![t] = "goroutine"]
    /\ UNCHANGED <<pc, globalSem, metrics, semCap, clsInput, clsReason>>

Next ==
    \E t \in Targets :
        \/ TickBusy(t)
        \/ TickWin(t)
        \/ SelectSend(t)
        \/ SelectDefault(t)
        \/ DefaultStore(t)
        \/ Go(t)
        \/ \E i \in 1..Len(gor[t]) : ProbeGaugeInc(t, i)
        \/ \E i \in 1..Len(gor[t]) : ProbeCount(t, i)
        \/ \E i \in 1..Len(gor[t]) : ProbeGet(t, i)
        \/ \E i \in 1..Len(gor[t]) : ProbeErrInc(t, i)
        \/ \E i \in 1..Len(gor[t]) : ProbeObserve(t, i)
        \/ \E i \in 1..Len(gor[t]) : ProbeGaugeDec(t, i)
        \/ \E i \in 1..Len(gor[t]) : ReleaseSlot(t, i)
        \/ \E i \in 1..Len(gor[t]) : StoreFalse(t, i)

Spec == Init /\ [][Next]_vars

\* ------------------------------------------------------ the fair scheduler

\* The steps of a loop between winning the guard and going back to its ticker.
LoopStep(t) ==
    \/ SelectSend(t)
    \/ SelectDefault(t)
    \/ DefaultStore(t)
    \/ Go(t)

\* httpClient.Get returns: with an answer, or with an error once the client's
\* Timeout of 5 seconds has passed.
GetStep(t) == \E i \in 1..Len(gor[t]) : ProbeGet(t, i)

\* The other statements and deferred calls of a probe goroutine.
GoroutineStep(t) ==
    \E i \in 1..Len(gor[t]) :
        \/ ProbeGaugeInc(t, i)
        \/ ProbeCount(t, i)
        \/ ProbeErrInc(t, i)
        \/ ProbeObserve(t, i)
        \/ ProbeGaugeDec(t, i)
        \/ ReleaseSlot(t, i)
        \/ StoreFalse(t, i)

\* The Go scheduler runs every runnable goroutine again; a ticker is under no
\* obligation to fire.
Fairness ==
    \A t \in Targets :
        /\ WF_vars(LoopStep(t))
        /\ WF_vars(GetStep(t))
        /\ WF_vars(GoroutineStep(t))

SpecFair == Init /\ [][Next]_vars /\ Fairness

\* ------------------------------------------ a pool no smaller than targets

\* A build whose GlobalSlotSize is the number of targets or one more, as main's
\* 8 targets are fewer than its 10 slots.
FitsInit ==
    /\ semCap \in {NumTargets, NumTargets + 1}
    /\ SchedStart
    /\ clsInput = NoInput
    /\ clsReason = ""

\* The steps such a build takes: the select's default case is never taken
\* (C18 checks that it cannot be), so it is not listed.
FitsNext ==
    \E t \in Targets :
        \/ TickBusy(t)
        \/ TickWin(t)
        \/ SelectSend(t)
        \/ Go(t)
        \/ \E i \in 1..Len(gor[t]) : ProbeGaugeInc(t, i)
        \/ \E i \in 1..Len(gor[t]) : ProbeCount(t, i)
        \/ \E i \in 1..Len(gor[t]) : ProbeGet(t, i)
        \/ \E i \in 1..Len(gor[t]) : ProbeErrInc(t, i)
        \/ \E i \in 1..Len(gor[t]) : ProbeObserve(t, i)
        \/ \E i \in 1..Len(gor[t]) : ProbeGaugeDec(t, i)
        \/ \E i \in 1..Len(gor[t]) : ReleaseSlot(t, i)
        \/ \E i \in 1..Len(gor[t]) : StoreFalse(t, i)

SpecFits == FitsInit /\ [][FitsNext]_vars

\* ------------------------------------------- the classifier called directly

ClassifyInit ==
    /\ SchedInit
    /\ clsInput \in ClassifierInputs
    /\ clsReason = ""

CallTransport ==
    /\ clsReason = ""
    /\ clsInput.kind = "transport"
    /\ clsReason' = classifyTransportError(clsInput.err)
    /\ UNCHANGED <<schedVars, clsInput>>

CallHTTP ==
    /\ clsReason = ""
    /\ clsInput.kind = "http"
    /\ clsReason' = classifyHTTPStatus(clsInput.code)
    /\ UNCHANGED <<schedVars, clsInput>>

ClassifyNext == CallTransport \/ CallHTTP

SpecClassify == ClassifyInit /\ [][ClassifyNext]_vars

\* ------------------------------------- one probe against every kind of answer

\* Every answer Get can give: any error value, or a response with any code.
AllResponses ==
    {Response(e, 0) : e \in Errors}
        \cup {Response(<<>>, c) : c \in 0..MaxStatusCode}

\* The state right after some target's loop has won the guard, acquired a
\* slot and executed its go statement.
ProbeInit ==
    /\ \E t \in Targets :
        /\ running = [u \in Targets |-> u = t]
        /\ gor = [u \in Targets |-> IF u = t THEN <<NewGoroutine>> ELSE <<>>]
    /\ pc = [t \in Targets |-> "tick"]
    /\ globalSem = 1
    /\ semCap = GlobalSlotSize
    /\ inFlightGauge = 0
    /\ pingCount = EmptyVec
    /\ probeErrorsTotal = EmptyVec
    /\ pingLatency = EmptyVec
    /\ lastRelease = [t \in Targets |-> "none"]
    /\ clsInput = NoInput
    /\ clsReason = ""

ProbeGetAny(t, i) == \E r \in AllResponses : GetReturns(t, i, r)

ProbeNext ==
    \E t \in Targets :
        \/ \E i \in 1..Len(gor[t]) : ProbeGaugeInc(t, i)
        \/ \E i \in 1..Len(gor[t]) : ProbeCount(t, i)
        \/ \E i \in 1..Len(gor[t]) : ProbeGetAny(t, i)
        \/ \E i \in 1..Len(gor[t]) : ProbeErrInc(t, i)
        \/ \E i \in 1..Len(gor[t]) : ProbeObserve(t, i)
        \/ \E i \in 1..Len(gor[t]) : ProbeGaugeDec(t, i)
        \/ \E i \in 1..Len(gor[t]) : ReleaseSlot(t, i)
        \/ \E i \in 1..Len(gor[t]) : StoreFalse(t, i)

SpecProbe == ProbeInit /\ [][ProbeNext]_vars

\* ------------------------------------------------------------------ claims

InFlight(t) == Len(gor[t])

\* Goroutines inside probe(): from its first statement to its deferred Dec.
ProbePcs == {"gaugeInc", "count", "get", "errInc", "observe", "gaugeDec"}

Executing(t) == Cardinality({i \in 1..Len(gor[t]) : gor[t][i].pc \in ProbePcs})

ExecutingProbes == SumOver([t \in Targets |-> Executing(t)], Targets)

\* C1: for every target, at most one probe goroutine of that target is in
\* flight (launched by the loop and not yet ended) in every reachable state.
C1_OverlapInvariant == \A t \in Targets : InFlight(t) <= 1

\* A probe of t is waiting for the network, and it was launched by a tick
\* that came after the default case reset t's guard.
C1_Witness ==
    \E t \in Targets :
        /\ lastRelease[t] = "default"
        /\ InFlight(t) = 1
        /\ gor[t][1].pc = "get"

\* C2: the number of probes executing, summed over all targets, never
\* exceeds the capacity of the slot pool, with more targets than slots.
C2_ConcurrencyBound ==
    /\ NumTargets > GlobalSlotSize
    /\ ExecutingProbes <= GlobalSlotSize
    /\ globalSem <= GlobalSlotSize

\* Every slot is taken by a probe waiting for the network while another
\* target's tick is in the default case, with no probe of its own.
C2_Witness ==
    /\ Cardinality({t \in Targets : InFlight(t) = 1 /\ gor[t][1].pc = "get"})
            = GlobalSlotSize
    /\ \E t \in Targets : pc[t] = "release" /\ InFlight(t) = 0

\* C3: a tick that holds the guard and finds the pool full takes the default
\* case; its steps leave the four metrics, the pool and the goroutines as
\* they are and end with the guard false; a goroutine is launched only by a
\* loop that has just acquired a slot in the same tick.
C3_DropStep(t) ==
    /\ (pc[t] = "select" /\ globalSem >= GlobalSlotSize /\ pc'[t] # "select")
        => /\ pc'[t] = "release"
           /\ UNCHANGED <<metrics, globalSem, gor, running>>
    /\ (pc[t] = "release" /\ pc'[t] # "release")
        => /\ pc'[t] = "tick"
           /\ running'[t] = FALSE
           /\ UNCHANGED <<metrics, globalSem, gor>>
    /\ (Len(gor'[t]) > Len(gor[t])) => (pc[t] = "go" /\ pc'[t] = "tick")
    /\ (pc'[t] = "go" /\ pc[t] # "go")
        => (pc[t] = "select" /\ globalSem < GlobalSlotSize
              /\ globalSem' = globalSem + 1)

C3_DropNotQueue == [][\A t \in Targets : C3_DropStep(t)]_vars

\* A tick of t has been dropped: the guard is false again, the loop waits
\* for its next tick, the pool is still full and nothing was recorded for t.
C3_Witness ==
    \E t \in Targets :
        /\ lastRelease[t] = "default"
        /\ pc[t] = "tick"
        /\ running[t] = FALSE
        /\ globalSem = GlobalSlotSize
        /\ Val(pingCount, t) = 0

TransportReasons ==
    {FailureContextCanceled, FailureContextDeadline, FailureDNSNotFound,
     FailureDNSTimeout, FailureDNSError, FailureTLSHostnameMismatch,
     FailureTLSUntrustedCA, FailureTLSCertInvalid, FailureTimeout,
     FailureConnectionRefused, FailureNetworkError, FailureUnknown}

HTTPReasons == {FailureHTTP4xx, FailureHTTP5xx}

Taxonomy == TransportReasons \cup HTTPReasons \cup {FailureNone}

Called(kind) == clsInput.kind = kind /\ clsReason # ""

\* C4: classifyHTTPStatus gives none below 400, http_4xx from 400 to 499 and
\* http_5xx from 500 on; 399, 400, 499, 500 and 599 fall as the ranges say.
C4_HTTPBoundaries ==
    Called("http") =>
        LET code == clsInput.code
        IN  /\ code < 400 => clsReason = FailureNone
            /\ (code >= 400 /\ code <= 499) => clsReason = FailureHTTP4xx
            /\ code >= 500 => clsReason = FailureHTTP5xx
            /\ code = 399 => clsReason = "none"
            /\ code \in {400, 499} => clsReason = "http_4xx"
            /\ code \in {500, 599} => clsReason = "http_5xx"

\* classifyHTTPStatus has been called on 499 and answered http_4xx.
C4_Witness ==
    /\ Called("http")
    /\ clsInput.code = 499
    /\ clsReason = FailureHTTP4xx

\* The precedence table: the condition of each numbered rule on an error
\* value, and the rule's code.
RuleHolds(k, err) ==
    LET dnsErr == errorsAs(err, {"DNSError"})
        netErr == errorsAs(err, NetErrorTypes)
        opErr == errorsAs(err, {"OpError"})
    IN  CASE k = 1 -> errorsIs(err, "Canceled")
          [] k = 2 -> errorsIs(err, "DeadlineExceeded")
          [] k = 3 -> dnsErr # 0 /\ err[dnsErr].IsNotFound
          [] k = 4 -> dnsErr # 0 /\ err[dnsErr].IsTimeout
          [] k = 5 -> dnsErr # 0
          [] k = 6 -> errorsAs(err, {"HostnameError"}) # 0
          [] k = 7 -> errorsAs(err, {"UnknownAuthorityError"}) # 0
          [] k = 8 -> errorsAs(err, {"CertificateInvalidError"}) # 0
          [] k = 9 -> netErr # 0 /\ Timeout(err, netErr)
          [] k = 10 -> opErr # 0 /\ ConnRefusedText(err, opErr)
          [] k = 11 -> opErr # 0
          [] OTHER -> TRUE

RuleCode ==
    <<FailureContextCanceled, FailureContextDeadline, FailureDNSNotFound,
      FailureDNSTimeout, FailureDNSError, FailureTLSHostnameMismatch,
      FailureTLSUntrustedCA, FailureTLSCertInvalid, FailureTimeout,
      FailureConnectionRefused, FailureNetworkError, FailureUnknown>>

FirstRule(err) ==
    CHOOSE k \in 1..Len(RuleCode) :
        /\ RuleHolds(k, err)
        /\ \A j \in 1..(k - 1) : ~RuleHolds(j, err)

MatchingRules(err) == {k \in 1..(Len(RuleCode) - 1) : RuleHolds(k, err)}

\* C5: classifyTransportError returns the code of the first rule of the
\* precedence table whose condition the error meets; a DNS error that is a
\* timeout, and neither cancelled, past a deadline nor not-found, gives
\* dns_timeout and not timeout.
C5_Precedence ==
    Called("transport") =>
        LET err == clsInput.err
        IN  /\ clsReason = RuleCode[FirstRule(err)]
            /\ (RuleHolds(4, err) /\ RuleHolds(9, err)
                  /\ \A j \in 1..3 : ~RuleHolds(j, err))
                => (clsReason = FailureDNSTimeout /\ clsReason # FailureTimeout)

\* The classifier has answered dns_timeout for an error that meets the DNS
\* timeout rule, the generic timeout rule and the network error rule at once.
C5_Witness ==
    /\ Called("transport")
    /\ {4, 5, 9, 11} \subseteq MatchingRules(clsInput.err)
    /\ clsReason = FailureDNSTimeout

\* C6: the classifier is total: every transport error gets one of the twelve
\* transport codes (never none, http_4xx or http_5xx) and every HTTP status
\* gets none, http_4xx or http_5xx; the call is always possible.
C6_Total ==
    /\ Called("transport") => clsReason \in TransportReasons
    /\ Called("http") => clsReason \in HTTPReasons \cup {FailureNone}
    /\ clsReason # "" => clsReason \in Taxonomy
    /\ (clsReason = "" /\ clsInput.kind = "transport") => ENABLED CallTransport
    /\ (clsReason = "" /\ clsInput.kind = "http") => ENABLED CallHTTP

\* An error no case of the switch matches has been classified unknown.
C6_Witness ==
    /\ Called("transport")
    /\ MatchingRules(clsInput.err) = {}
    /\ clsReason = FailureUnknown

Statuses == {"success", "transport_error", "http_error"}

\* The goroutines that hold an outcome: Get has returned, the latency is not
\* observed yet.
HoldsOutcome(g) == g.pc \in {"errInc", "observe"}

OutcomeIsConsistent(status, reason) ==
    /\ status \in Statuses
    /\ reason \in Taxonomy
    /\ (reason = FailureNone) <=> (status = "success")

\* C7: every outcome probe holds or has recorded has one status and one
\* reason of the taxonomy, with reason none exactly for status success: an
\* error is a transport_error with a transport reason, a code of 400 or more
\* an http_error with http_4xx or http_5xx, a code below 400 a success.
C7_OutcomeInvariant ==
    /\ \A t \in Targets : \A i \in 1..Len(gor[t]) :
        LET g == gor[t][i]
        IN  HoldsOutcome(g) =>
              /\ OutcomeIsConsistent(g.status, g.errorReason)
              /\ g.err # <<>> =>
                    (g.status = "transport_error"
                        /\ g.errorReason \in TransportReasons)
              /\ (g.err = <<>> /\ g.code >= 400) =>
                    (g.status = "http_error" /\ g.errorReason \in HTTPReasons)
              /\ (g.err = <<>> /\ g.code < 400) =>
                    (g.status = "success" /\ g.errorReason = FailureNone)
    /\ \A key \in DOMAIN pingLatency : OutcomeIsConsistent(key[2], key[3])

\* A response with a 4xx code has been recorded in the histogram as an
\* http_error with reason http_4xx.
C7_Witness ==
    \E t \in Targets :
        /\ Val(pingLatency, <<t, "http_error", FailureHTTP4xx>>) = 1
        /\ Val(pingCount, t) = 1

\* The observations recorded for target t, over all its series.
Observations(t) ==
    SumOver(pingLatency, {key \in DOMAIN pingLatency : key[1] = t})

\* Whether the goroutine has got past its pingCount increment.
Counted(g) == g.pc \notin {"gaugeInc", "count"}

C8_State ==
    \A t \in Targets :
        /\ \A i \in 1..Len(gor[t]) :
            LET g == gor[t][i]
            IN  /\ g.ncount = IF Counted(g) THEN 1 ELSE 0
                /\ (g.status # "" \/ g.err # <<>> \/ g.nerr > 0 \/ g.nobs > 0)
                      => g.ncount = 1
        /\ Val(pingCount, t) =
              Observations(t)
                + Cardinality({i \in 1..Len(gor[t]) :
                                  gor[t][i].ncount = 1 /\ gor[t][i].nobs = 0})

C8_Step ==
    \A t \in Targets :
        /\ Val(pingCount, t)' # Val(pingCount, t) =>
              /\ Val(pingCount, t)' = Val(pingCount, t) + 1
              /\ \A u \in Targets \ {t} : Val(pingCount, u)' = Val(pingCount, u)
              /\ UNCHANGED <<probeErrorsTotal, pingLatency>>
              /\ \E i \in 1..Len(gor[t]) :
                    /\ gor[t][i].pc = "count"
                    /\ gor[t][i].status = "" /\ gor[t][i].err = <<>>
                    /\ gor'[t][i].pc = "get"
        /\ (probeErrorsTotal' # probeErrorsTotal \/ pingLatency' # pingLatency)
              => UNCHANGED pingCount

\* C8: every probe adds exactly 1 to the request counter of its own target,
\* and to no other, before Get returns: a probe that holds an outcome or has
\* updated an error counter or the histogram has counted already, whatever
\* the outcome.
C8_CountedBeforeOutcome == []C8_State /\ [][C8_Step]_vars

\* A probe whose Get failed with DNS not-found, before its error counter
\* and histogram updates: its target's request counter is 1 already.
C8_Witness ==
    \E t \in Targets :
        /\ InFlight(t) = 1
        /\ gor[t][1].pc = "errInc"
        /\ gor[t][1].errorReason = FailureDNSNotFound
        /\ Val(pingCount, t) = 1
        /\ probeErrorsTotal = EmptyVec
        /\ Observations(t) = 0

\* C9: (one probe, any answer) a success leaves every error counter alone; a
\* transport_error or http_error adds exactly 1 to the error counter of its
\* own reason and to no other; the counter keyed by none stays at 0.
C9_ErrorCounter ==
    /\ Val(probeErrorsTotal, FailureNone) = 0
    /\ FailureNone \notin DOMAIN probeErrorsTotal
    /\ \A t \in Targets : \A i \in 1..Len(gor[t]) :
        LET g == gor[t][i]
        IN  /\ g.pc \in {"gaugeInc", "count", "get", "errInc"} =>
                  (probeErrorsTotal = EmptyVec /\ g.nerr = 0)
            /\ g.pc = "errInc" => g.status # "success"
            /\ g.pc = "observe" =>
                  IF g.status = "success"
                  THEN probeErrorsTotal = EmptyVec /\ g.nerr = 0
                  ELSE probeErrorsTotal = (g.errorReason :> 1) /\ g.nerr = 1
            /\ g.pc \in {"gaugeDec", "slot", "store"} =>
                  Total(probeErrorsTotal) = g.nerr
    /\ \A key \in DOMAIN pingLatency :
        IF key[2] = "success"
        THEN probeErrorsTotal = EmptyVec
        ELSE probeErrorsTotal = (key[3] :> 1)

\* A probe answered with a 5xx code has ended: error counter http_5xx is 1,
\* and it is the only error counter.
C9_Witness ==
    \E t \in Targets :
        /\ InFlight(t) = 0
        /\ Val(pingLatency, <<t, "http_error", FailureHTTP5xx>>) = 1
        /\ probeErrorsTotal = (FailureHTTP5xx :> 1)

C10_State ==
    \A t \in Targets : \A i \in 1..Len(gor[t]) :
        gor[t][i].nobs = IF gor[t][i].pc \in {"gaugeDec", "slot", "store"}
                         THEN 1 ELSE 0

C10_Step ==
    /\ \A t \in Targets :
        \* a tick ends dropped, with nothing launched, or with one launch
        /\ (pc[t] # "tick" /\ pc'[t] = "tick") =>
              \/ pc[t] = "release" /\ gor' = gor
              \/ pc[t] = "go" /\ gor'[t] = Append(gor[t], NewGoroutine)
                    /\ \A u \in Targets \ {t} : gor'[u] = gor[u]
        /\ Len(gor'[t]) > Len(gor[t]) => (pc[t] = "go" /\ pc'[t] = "tick")
        \* a goroutine ends only after its one observation
        /\ Len(gor'[t]) < Len(gor[t]) =>
              \E i \in 1..Len(gor[t]) :
                  /\ gor[t][i].pc = "store"
                  /\ gor[t][i].nobs = 1
                  /\ gor'[t] = Remove(gor[t], i)
    \* the histogram changes by one observation, in the series of the probe
    \* that makes it
    /\ pingLatency' # pingLatency =>
          \E t \in Targets : \E i \in 1..Len(gor[t]) :
              /\ gor[t][i].pc = "observe"
              /\ gor[t][i].status \in Statuses
              /\ pingLatency' =
                    VecInc(pingLatency,
                           <<t, gor[t][i].status, gor[t][i].errorReason>>)
              /\ gor'[t][i].nobs = gor[t][i].nobs + 1

\* C10: a tick ends either dropped, launching nothing, or with exactly one
\* probe launched; a launched probe records exactly one latency observation
\* before it ends, in the series of its own target, status and reason.
C10_OneObservationPerProbe == []C10_State /\ [][C10_Step]_vars

\* One target's probe has ended with its single observation recorded while
\* the other target's tick was dropped and recorded nothing.
C10_Witness ==
    \E t \in Targets : \E u \in Targets \ {t} :
        /\ lastRelease[t] = "goroutine"
        /\ InFlight(t) = 0
        /\ Observations(t) = 1
        /\ lastRelease[u] = "default"
        /\ Val(pingCount, u) = 0
        /\ Observations(u) = 0


NoDecrease(vec, vecNext) ==
    \A k \in DOMAIN vec : k \in DOMAIN vecNext /\ vecNext[k] >= vec[k]

\* C11: no step lowers a request counter or an error counter, or removes
\* one.
C11_CountersMonotone ==
    [][NoDecrease(pingCount, pingCount')
        /\ NoDecrease(probeErrorsTotal, probeErrorsTotal')]_vars

\* Counters have grown: one target has been probed twice and an error
\* counter stands at 1.
C11_Witness ==
    /\ \E t \in Targets : Val(pingCount, t) = 2
    /\ \E r \in Taxonomy : Val(probeErrorsTotal, r) = 1

\* Goroutines between inFlightGauge.Inc() and the deferred Dec().
Gauged(t) ==
    Cardinality({i \in 1..Len(gor[t]) :
        gor[t][i].pc \in {"count", "get", "errInc", "observe", "gaugeDec"}})

\* C12: the gauge equals the number of probes between their Inc and their
\* Dec, so it is never negative and is 0 whenever no probe goroutine exists;
\* probes that ended, on the error path or the response path, left it at 0.
C12_GaugeInvariant ==
    /\ inFlightGauge >= 0
    /\ inFlightGauge = SumOver([t \in Targets |-> Gauged(t)], Targets)
    /\ (\A t \in Targets : InFlight(t) = 0) => inFlightGauge = 0

\* No probe is active and the gauge is back at 0 after a probe that ended
\* in a transport error and a probe that ended with a response.
C12_Witness ==
    /\ \A t \in Targets : InFlight(t) = 0
    /\ inFlightGauge = 0
    /\ \E key \in DOMAIN pingLatency : key[2] = "transport_error"
    /\ \E key \in DOMAIN pingLatency : key[2] = "success"


\* The slots target t occupies: one from its loop's send until the deferred
\* receive of the goroutine the loop launches.
SlotsHeld(t) ==
    (IF pc[t] = "go" THEN 1 ELSE 0)
        + Cardinality({i \in 1..Len(gor[t]) : gor[t][i].pc # "store"})

Idle(t) == InFlight(t) = 0 /\ SlotsHeld(t) = 0 /\ ~running[t]

\* C13: a loop at its select can always take one of the two cases at once,
\* the default case when the pool is full; and, the scheduler being fair and
\* Get returning, a target that holds a slot or has a probe in flight reaches
\* a state where the probe has ended, the slot is released and the guard is
\* false.
C13_NoBlocking ==
    /\ [](\A t \in Targets :
            pc[t] = "select" =>
                /\ ENABLED (SelectSend(t) \/ SelectDefault(t))
                /\ globalSem = semCap => ENABLED SelectDefault(t))
    /\ \A t \in Targets : (SlotsHeld(t) = 1 \/ InFlight(t) = 1) ~> Idle(t)

\* A target is idle again after a probe that ended at the client's timeout
\* (classified as a context deadline), while another loop found the pool full.
C13_Witness ==
    \E t, u \in Targets :
        /\ Idle(t)
        /\ Val(pingLatency, <<t, "transport_error", FailureContextDeadline>>) = 1
        /\ pc[u] = "release"


LoopPcs == {"tick", "select", "release", "go"}

\* Goroutine i of t is on probe's error path or past it.
Failing(t, i) == gor[t][i].pc = "errInc" \/ gor[t][i].nerr > 0

\* A step of a failing goroutine of t.
FailingStep(t) ==
    /\ pc' = pc
    /\ \E i \in 1..Len(gor[t]) : Failing(t, i)
    /\ gor'[t] # gor[t]

\* The step that ends a failed probe of t.
FailedEnds(t) == FailingStep(t) /\ Len(gor'[t]) < Len(gor[t])

C14_State ==
    \A t \in Targets :
        /\ pc[t] \in LoopPcs
        /\ \A i \in 1..Len(gor[t]) :
              (gor[t][i].nerr > 0 /\ gor[t][i].pc \in {"gaugeDec", "slot", "store"})
                  => gor[t][i].nobs = 1
        /\ (pc[t] = "tick" /\ InFlight(t) = 0 /\ TickerFires) => ENABLED TickWin(t)

C14_Step ==
    \A t \in Targets :
        /\ FailingStep(t) =>
              /\ \A u \in Targets \ {t} :
                    /\ running'[u] = running[u]
                    /\ gor'[u] = gor[u]
                    /\ SlotsHeld(u)' = SlotsHeld(u)
              /\ TickerFires' = TickerFires
              /\ globalSem' <= globalSem
        /\ FailedEnds(t) =>
              /\ pc'[t] = "tick"
              /\ ~running'[t]
              /\ InFlight(t)' = 0
              /\ globalSem' = globalSem

\* C14: every loop stays in its for loop; a probe that took the error path
\* has its latency observation recorded under its error labels; the steps of
\* a failing probe change no other target's guard, goroutines or held slot and
\* do not stop the ticker; when such a probe ends its loop is at its ticker
\* with the guard false, so the next tick wins the guard.
C14_FailureIsLocal == []C14_State /\ [][C14_Step]_vars

\* A target whose probe ended in a DNS failure, recorded in the histogram and
\* the error counter, has its next probe in flight.
C14_Witness ==
    \E t \in Targets :
        /\ Val(pingLatency, <<t, "transport_error", FailureDNSNotFound>>) = 1
        /\ Val(probeErrorsTotal, FailureDNSNotFound) = 1
        /\ lastRelease[t] = "goroutine"
        /\ InFlight(t) = 1


C15_State ==
    \A t \in Targets :
        /\ SlotsHeld(t) = 1 => running[t]
        /\ \A i \in 1..Len(gor[t]) : gor[t][i].pc = "store" => running[t]

C15_Step ==
    \A t \in Targets :
        /\ (running[t] /\ ~running'[t]) =>
              /\ SlotsHeld(t) = 0
              /\ SlotsHeld(t)' = 0
        /\ (InFlight(t) = 1 /\ InFlight(t)' = 0) =>
              /\ gor[t][1].pc = "store"
              /\ running[t] /\ ~running'[t]
              /\ globalSem' = globalSem
        /\ (InFlight(t) = 1 /\ SlotsHeld(t) = 1 /\ SlotsHeld(t)' = 0) =>
              /\ globalSem' = globalSem - 1
              /\ running[t] /\ running'[t]
              /\ InFlight(t)' = 1

\* C15: a target that holds a slot has its guard true; the step that releases
\* a probe's slot leaves the guard true and the goroutine alive, and the guard
\* falls only in a later step, taken with no slot held by the target, which
\* for a goroutine is its last.
C15_ReleaseThenReset == []C15_State /\ [][C15_Step]_vars

\* Between the two deferred calls of a probe that failed: the slot is back in
\* the pool and the guard is still true.
C15_Witness ==
    \E t \in Targets :
        /\ InFlight(t) = 1
        /\ gor[t][1].pc = "store"
        /\ gor[t][1].nerr = 1
        /\ globalSem = 0
        /\ running[t]


\* The loop of t is at its ticker with the guard true.
Busy(t) == pc[t] = "tick" /\ running[t]

C16_State ==
    \A t \in Targets :
        (Busy(t) /\ TickerFires) => (ENABLED TickBusy(t) /\ ~ENABLED TickWin(t))

C16_Step ==
    \A t \in Targets :
        /\ TickBusy(t) =>
              UNCHANGED <<running, pc, gor, globalSem, inFlightGauge,
                          pingCount, probeErrorsTotal, pingLatency>>
        /\ Busy(t) =>
              /\ pc'[t] = "tick"
              /\ SlotsHeld(t)' <= SlotsHeld(t)
              /\ InFlight(t)' <= InFlight(t)
              /\ running'[t] \/ InFlight(t)' < InFlight(t)
              /\ metrics' # metrics => gor' # gor

\* C16: while a target's guard is true, a tick of its loop can only take the
\* continue branch, and that step changes no variable. In any step taken from
\* such a state the loop stays at its ticker, the target gains no slot and no
\* goroutine, the guard stays true unless the target's goroutine ends, and the
\* metrics change only together with a goroutine's step.
C16_SkippedTickChangesNothing == []C16_State /\ [][C16_Step]_vars

\* A tick can fire for a target whose probe is waiting in Get, with its
\* request counted and the gauge at 1.
C16_Witness ==
    \E t \in Targets :
        /\ Busy(t)
        /\ TickerFires
        /\ InFlight(t) = 1
        /\ gor[t][1].pc = "get"
        /\ inFlightGauge = 1
        /\ Val(pingCount, t) = 1


\* The step is the loop of t executing running.CompareAndSwap(false, true)
\* with success.
LoopCAS(t) ==
    /\ pc[t] = "tick" /\ pc'[t] = "select"
    /\ ~running[t] /\ running'[t]
    /\ gor' = gor

\* The step is the loop of t executing running.Store(false) in its default
\* case.
LoopStore(t) ==
    /\ pc[t] = "release" /\ pc'[t] = "tick"
    /\ running[t] /\ ~running'[t]
    /\ gor' = gor

\* The step is the goroutine launched by the loop of t executing its deferred
\* running.Store(false) and ending.
GoroutineStore(t) ==
    /\ pc' = pc
    /\ InFlight(t) = 1 /\ gor[t][1].pc = "store" /\ InFlight(t)' = 0
    /\ running[t] /\ ~running'[t]

\* The steps of other targets' loops and goroutines.
OthersStill(t) ==
    \A u \in Targets \ {t} :
        /\ pc'[u] = pc[u]
        /\ gor'[u] = gor[u]
        /\ running'[u] = running[u]

\* C17 as stated: a guard changes only in a compare-and-set step of its own
\* target's loop.
C17_OnlyLoopCAS ==
    [][\A t \in Targets : running'[t] # running[t] => LoopCAS(t)]_vars

\* C17 as amended: a guard goes from false to true only by the compare-and-set
\* of its own target's loop, and from true to false only by an atomic store
\* made by that loop in its default case or by the goroutine that loop
\* launched, as the goroutine's last step; no step of another target's loop
\* or goroutine changes it.
C17_GuardWriters ==
    [][\A t \in Targets :
          running'[t] # running[t] =>
              /\ LoopCAS(t) \/ LoopStore(t) \/ GoroutineStore(t)
              /\ OthersStill(t)]_vars

\* One guard was reset by its loop's default case and another by the
\* goroutine its loop launched.
C17_Witness ==
    \E t, u \in Targets :
        /\ lastRelease[t] = "goroutine" /\ ~running[t]
        /\ lastRelease[u] = "default" /\ ~running[u]


\* C18: with a pool no smaller than the number of targets, a loop at its
\* select can always send and can never take the default case, so no loop is
\* ever in the default case and no guard was ever reset there; each target
\* holds at most one slot, and the targets other than one at its select leave
\* a slot free.
C18_NeverDropsWhenFits ==
    /\ semCap >= NumTargets
    /\ \A t \in Targets :
          /\ pc[t] = "select" =>
                /\ ENABLED SelectSend(t)
                /\ ~ENABLED SelectDefault(t)
                /\ globalSem <= NumTargets - 1
          /\ pc[t] # "release"
          /\ ~ENABLED DefaultStore(t)
          /\ lastRelease[t] # "default"
          /\ SlotsHeld(t) <= 1
    /\ globalSem = SumOver([t \in Targets |-> SlotsHeld(t)], Targets)

\* The pool has exactly one slot per target, every other target holds its
\* slot, and the last loop is at its select.
C18_Witness ==
    \E t \in Targets :
        /\ semCap = NumTargets
        /\ pc[t] = "select"
        /\ \A u \in Targets \ {t} : SlotsHeld(u) = 1
        /\ globalSem = NumTargets - 1


GuardsTrue == Cardinality({t \in Targets : running[t]})

Unobserved(t) ==
    \E i \in 1..Len(gor[t]) : gor[t][i].pc \in {"get", "errInc", "observe"}

\* C20: for every target the request counter minus the number of latency
\* observations of that target is 0 or 1, and is 1 exactly while a probe of
\* the target has counted its request and not yet made its observation; the
\* error counters add up to no more than the request counters.
C20_CountsAgree ==
    /\ \A t \in Targets :
          /\ Val(pingCount, t) - Observations(t) \in {0, 1}
          /\ Val(pingCount, t) - Observations(t) = 1 <=> Unobserved(t)
    /\ Total(probeErrorsTotal) <= Total(pingCount)

\* A target with two requests counted and one observation, its second probe
\* having just counted an error; the error counters add up to 2.
C20_Witness ==
    \E t \in Targets :
        /\ Val(pingCount, t) = 2
        /\ Observations(t) = 1
        /\ InFlight(t) = 1 /\ gor[t][1].pc = "observe"
        /\ Total(probeErrorsTotal) = 2

====
